---- MODULE Spec2Model ----
(***************************************************************************)
(* Model of future_rss (src/src/lib.rs): RssParser::parse_vec, the event   *)
(* loop that walks the events of a quick_xml Reader and routes text and    *)
(* CDATA content into the fields of the last RssItem, and                  *)
(* RssParser::parse_json, which dumps the items as a JSON array.           *)
(*                                                                         *)
(* Strings are sequences of byte values, so that eq_ignore_ascii_case,     *)
(* the unescaping of text events and the JSON dump work on characters.     *)
(* A document is the sequence of events the Reader yields for it; after    *)
(* the last event the Reader yields Eof. check_xml, which from_str applies *)
(* to the text, sees the document as the markup of its events.             *)
(***************************************************************************)
EXTENDS Integers, Sequences, FiniteSets, TLC

VARIABLES
    parser,       \* the RssParser: xml and the seven tag names
    pc,           \* "idle", "scan", "json", "done", "panicked" or "rejected"
    entry,        \* the public method running: "none", "parse_vec", "parse_json"
    reader,       \* number of events the Reader has yielded so far
    active,       \* parse_vec: let mut active
    nodes,        \* parse_vec: let mut nodes
    vec_result,   \* what parse_vec returned
    json_result,  \* what parse_json returned
    built,        \* the call that gave the parser its document, and what it returned
    other         \* a second parser and its run, while its thread is not the one stepping

vars == <<parser, pc, entry, reader, active, nodes, vec_result, json_result,
          built, other>>

----------------------------------------------------------------------------
(* Bounds *)

\* longest document of GeneralDocs
MaxLen == 3
\* longest body after the container start in BodyDocs
MaxBody == 4
\* longest document of TieDocs
MaxTieLen == 3
\* longest body of LifeDocs
MaxLifeLen == 3
\* longest tail of TwoDocs
MaxTwoLen == 1

----------------------------------------------------------------------------
(* Strings *)

S_item        == <<105, 116, 101, 109>>
S_title       == <<116, 105, 116, 108, 101>>
S_link        == <<108, 105, 110, 107>>
S_author      == <<97, 117, 116, 104, 111, 114>>
S_description == <<100, 101, 115, 99, 114, 105, 112, 116, 105, 111, 110>>
S_guid        == <<103, 117, 105, 100>>
S_pubDate     == <<112, 117, 98, 68, 97, 116, 101>>
S_publish     == <<112, 117, 98, 108, 105, 115, 104>>
S_dc_creator  == <<100, 99, 58, 99, 114, 101, 97, 116, 111, 114>>
S_rss         == <<114, 115, 115>>
S_ITEM        == <<73, 84, 69, 77>>
S_Title       == <<84, 105, 116, 108, 101>>
S_X           == <<88>>
S_x           == <<120>>
S_A           == <<65>>
S_B           == <<66>>
S_quote_backslash == <<34, 92>>
S_amp         == <<38>>
S_amp_entity  == <<38, 97, 109, 112, 59>>
S_foo_entity  == <<38, 102, 111, 111, 59>>

RSS_DEFAULT_NODE_TAG    == S_item
RSS_DEFAULT_TITLE_TAG   == S_title
RSS_DEFAULT_LINK_TAG    == S_link
RSS_DEFAULT_AUTHOR_TAG  == S_author
RSS_DEFAULT_DESC_TAG    == S_description
RSS_DEFAULT_GUID_TAG    == S_guid
RSS_DEFAULT_PUBLISH_TAG == S_pubDate

\* u8::to_ascii_lowercase
to_ascii_lowercase(c) == IF c \in 65..90 THEN c + 32 ELSE c

\* a comparison that minds the case
eq_exact(a, b) == a = b

\* str::eq_ignore_ascii_case
eq_ignore_ascii_case(a, b) ==
    /\ Len(a) = Len(b)
    /\ \A i \in 1..Len(a) : to_ascii_lowercase(a[i]) = to_ascii_lowercase(b[i])

----------------------------------------------------------------------------
(* Records *)

\* the fields of RssItem, in declaration order
Fields == <<"title", "link", "author", "description", "guid", "publish">>

\* a default item with a placeholder for its guid
RssItemDefault_placeholder ==
    [title |-> <<>>, link |-> <<>>, author |-> <<>>,
     description |-> <<>>, guid |-> <<48>>, publish |-> <<>>]

\* impl Default for RssItem
RssItemDefault ==
    [title |-> <<>>, link |-> <<>>, author |-> <<>>,
     description |-> <<>>, guid |-> <<>>, publish |-> <<>>]

\* RssParser::new
RssParserNew ==
    [xml             |-> <<>>,
     node_tag        |-> RSS_DEFAULT_NODE_TAG,
     title_tag       |-> RSS_DEFAULT_TITLE_TAG,
     link_tag        |-> RSS_DEFAULT_LINK_TAG,
     author_tag      |-> RSS_DEFAULT_AUTHOR_TAG,
     description_tag |-> RSS_DEFAULT_DESC_TAG,
     guid_tag        |-> RSS_DEFAULT_GUID_TAG,
     publish_tag     |-> RSS_DEFAULT_PUBLISH_TAG]

----------------------------------------------------------------------------
(* Events of the Reader *)

\* quick_xml::events::Event as matched by parse_vec: "Start", "CData" and
\* "Text" carry bytes, "Err" carries the Reader's error, every other event
\* ("End", "Decl", ...) carries nothing the loop looks at.
Start(n) == [type |-> "Start", data |-> n,    err |-> 0]
Text(t)  == [type |-> "Text",  data |-> t,    err |-> 0]
CData(t) == [type |-> "CData", data |-> t,    err |-> 0]
End      == [type |-> "End",   data |-> <<>>, err |-> 0]
Decl     == [type |-> "Decl",  data |-> <<>>, err |-> 0]
Err(e)   == [type |-> "Err",   data |-> <<>>, err |-> e]

\* reader.read_event(&mut buff): the next event of the document, Eof once
\* the document is exhausted
read_event(xml, n) ==
    IF n < Len(xml) THEN xml[n + 1]
    ELSE [type |-> "Eof", data |-> <<>>, err |-> 0]

\* format!("{:?}", e) of the Reader's error e
DebugFmt(e) ==
    CASE e = 1 -> "UnexpectedEof(\"Element\")"
      [] e = 2 -> "EndEventMismatch { expected: \"a\", found: \"b\" }"
      [] OTHER -> "UnexpectedToken(\"--\")"

\* std::io::Error::new(std::io::ErrorKind::Other, format!("{:?}", e))
IoErrorOther(e) == [kind |-> "Other", msg |-> DebugFmt(e)]

----------------------------------------------------------------------------
(* std::str::from_utf8 *)

IsCont(b) == b \in 128..191

\* length of the well-formed UTF-8 sequence that starts at s[i], 0 if none
Utf8SeqLen(s, i) ==
    LET b  == s[i]
        n  == Len(s)
        b1 == IF i + 1 <= n THEN s[i + 1] ELSE 0
        b2 == IF i + 2 <= n THEN s[i + 2] ELSE 0
        b3 == IF i + 3 <= n THEN s[i + 3] ELSE 0
    IN  CASE b \in 0..127   -> 1
          [] b \in 194..223 -> IF IsCont(b1) THEN 2 ELSE 0
          [] b = 224        -> IF b1 \in 160..191 /\ IsCont(b2) THEN 3 ELSE 0
          [] b \in 225..236 -> IF IsCont(b1) /\ IsCont(b2) THEN 3 ELSE 0
          [] b = 237        -> IF b1 \in 128..159 /\ IsCont(b2) THEN 3 ELSE 0
          [] b \in 238..239 -> IF IsCont(b1) /\ IsCont(b2) THEN 3 ELSE 0
          [] b = 240        -> IF b1 \in 144..191 /\ IsCont(b2) /\ IsCont(b3) THEN 4 ELSE 0
          [] b \in 241..243 -> IF IsCont(b1) /\ IsCont(b2) /\ IsCont(b3) THEN 4 ELSE 0
          [] b = 244        -> IF b1 \in 128..143 /\ IsCont(b2) /\ IsCont(b3) THEN 4 ELSE 0
          [] OTHER          -> 0

RECURSIVE Utf8ValidFrom(_, _)
Utf8ValidFrom(s, i) ==
    IF i > Len(s) THEN TRUE
    ELSE LET k == Utf8SeqLen(s, i)
         IN  k > 0 /\ Utf8ValidFrom(s, i + k)

\* std::str::from_utf8(bytes).is_ok()
from_utf8_ok(s) == Utf8ValidFrom(s, 1)

----------------------------------------------------------------------------
(* BytesText::unescape_and_decode *)

Failed == [ok |-> FALSE, val |-> <<>>]
Ok(v)  == [ok |-> TRUE, val |-> v]

\* char::to_string of a code point, as UTF-8 bytes
EncodeUtf8(c) ==
    IF c < 128 THEN <<c>>
    ELSE IF c < 2048 THEN <<192 + (c \div 64), 128 + (c % 64)>>
    ELSE IF c < 65536
         THEN <<224 + (c \div 4096), 128 + ((c \div 64) % 64), 128 + (c % 64)>>
    ELSE <<240 + (c \div 262144), 128 + ((c \div 4096) % 64),
           128 + ((c \div 64) % 64), 128 + (c % 64)>>

\* value of one digit in the given radix, -1 if it is none
DigitVal(b, radix) ==
    LET v == CASE b \in 48..57  -> b - 48
               [] b \in 97..102 -> b - 87
               [] b \in 65..70  -> b - 55
               [] OTHER         -> 99
    IN  IF v < radix THEN v ELSE -1

\* value of the digits s[i..] in the given radix on top of acc, -1 if not a number
RECURSIVE ParseNumber(_, _, _, _)
ParseNumber(s, i, radix, acc) ==
    IF i > Len(s) THEN acc
    ELSE LET d == DigitVal(s[i], radix)
         IN  IF d < 0 \/ acc > 1114111 THEN -1
             ELSE ParseNumber(s, i + 1, radix, acc * radix + d)

\* a character reference: the bytes after "#"
CharRef(body) ==
    LET hex == Len(body) >= 1 /\ body[1] = 120
        ds  == IF hex THEN Tail(body) ELSE body
        c   == IF ds = <<>> THEN -1 ELSE ParseNumber(ds, 1, IF hex THEN 16 ELSE 10, 0)
    IN  IF c <= 0 \/ c > 1114111 \/ c \in 55296..57343 THEN Failed
        ELSE Ok(EncodeUtf8(c))

\* the replacement of the entity whose name is body (the bytes between & and ;)
Entity(body) ==
    CASE body = <<108, 116>>           -> Ok(<<60>>)
      [] body = <<103, 116>>           -> Ok(<<62>>)
      [] body = <<97, 109, 112>>       -> Ok(<<38>>)
      [] body = <<97, 112, 111, 115>>  -> Ok(<<39>>)
      [] body = <<113, 117, 111, 116>> -> Ok(<<34>>)
      [] OTHER -> IF Len(body) >= 1 /\ body[1] = 35 THEN CharRef(Tail(body))
                  ELSE Failed

\* position of the first ";" at or after s[i], 0 if there is none
RECURSIVE FindSemicolon(_, _)
FindSemicolon(s, i) ==
    IF i > Len(s) THEN 0
    ELSE IF s[i] = 59 THEN i
    ELSE FindSemicolon(s, i + 1)

RECURSIVE UnescapeFrom(_, _)
UnescapeFrom(s, i) ==
    IF i > Len(s) THEN Ok(<<>>)
    ELSE IF s[i] # 38
         THEN LET r == UnescapeFrom(s, i + 1)
              IN  IF r.ok THEN Ok(<<s[i]>> \o r.val) ELSE Failed
    ELSE LET j == FindSemicolon(s, i + 1)
         IN  IF j = 0 THEN Failed
             ELSE LET e == Entity(SubSeq(s, i + 1, j - 1))
                      r == UnescapeFrom(s, j + 1)
                  IN  IF e.ok /\ r.ok THEN Ok(e.val \o r.val) ELSE Failed

\* e.unescape_and_decode(&reader): the text with its entities replaced, or
\* a failure (unknown entity, "&" without ";", undecodable bytes)
unescape_and_decode(raw) ==
    IF from_utf8_ok(raw) THEN UnescapeFrom(raw, 1) ELSE Failed

----------------------------------------------------------------------------
(* parse_vec: the match on the active tag *)

\* the CData arm with its guards tried in the opposite order
MatchCData_last_first(self, tag) ==
    IF eq_ignore_ascii_case(self.publish_tag, tag) THEN "publish"
    ELSE IF eq_ignore_ascii_case(self.guid_tag, tag) THEN "guid"
    ELSE IF eq_ignore_ascii_case(self.description_tag, tag) THEN "description"
    ELSE IF eq_ignore_ascii_case(self.author_tag, tag) THEN "author"
    ELSE IF eq_ignore_ascii_case(self.link_tag, tag) THEN "link"
    ELSE IF eq_ignore_ascii_case(self.title_tag, tag) THEN "title"
    ELSE "none"

\* the guards of the CData arm's match, tried in this order: the field of
\* the first tag that equals the active tag, "none" when the "_ => ()" arm runs
MatchCData(self, tag) ==
    IF eq_ignore_ascii_case(self.title_tag, tag) THEN "title"
    ELSE IF eq_ignore_ascii_case(self.link_tag, tag) THEN "link"
    ELSE IF eq_ignore_ascii_case(self.author_tag, tag) THEN "author"
    ELSE IF eq_ignore_ascii_case(self.description_tag, tag) THEN "description"
    ELSE IF eq_ignore_ascii_case(self.guid_tag, tag) THEN "guid"
    ELSE IF eq_ignore_ascii_case(self.publish_tag, tag) THEN "publish"
    ELSE "none"

\* the CData arm's match: last.<field> = node_text.to_string()
DispatchCData(self, tag, last, node_text) ==
    LET f == MatchCData(self, tag)
    IN  IF f = "none" THEN last ELSE [last EXCEPT ![f] = node_text]

\* the Text arm with the publish arm writing the guid
MatchText_publish_to_guid(self, tag) ==
    IF eq_ignore_ascii_case(self.title_tag, tag) THEN "title"
    ELSE IF eq_ignore_ascii_case(self.link_tag, tag) THEN "link"
    ELSE IF eq_ignore_ascii_case(self.author_tag, tag) THEN "author"
    ELSE IF eq_ignore_ascii_case(self.description_tag, tag) THEN "description"
    ELSE IF eq_ignore_ascii_case(self.guid_tag, tag) THEN "guid"
    ELSE IF eq_ignore_ascii_case(self.publish_tag, tag) THEN "guid"
    ELSE "none"

\* the Text arm with the default author tag still recognised
MatchText_default_author(self, tag) ==
    IF eq_ignore_ascii_case(self.title_tag, tag) THEN "title"
    ELSE IF eq_ignore_ascii_case(self.link_tag, tag) THEN "link"
    ELSE IF eq_ignore_ascii_case(self.author_tag, tag)
            \/ eq_ignore_ascii_case(RSS_DEFAULT_AUTHOR_TAG, tag) THEN "author"
    ELSE IF eq_ignore_ascii_case(self.description_tag, tag) THEN "description"
    ELSE IF eq_ignore_ascii_case(self.guid_tag, tag) THEN "guid"
    ELSE IF eq_ignore_ascii_case(self.publish_tag, tag) THEN "publish"
    ELSE "none"

\* the Text arm's guards tried from the last to the first
MatchText_last_first(self, tag) ==
    IF eq_ignore_ascii_case(self.publish_tag, tag) THEN "publish"
    ELSE IF eq_ignore_ascii_case(self.guid_tag, tag) THEN "guid"
    ELSE IF eq_ignore_ascii_case(self.description_tag, tag) THEN "description"
    ELSE IF eq_ignore_ascii_case(self.author_tag, tag) THEN "author"
    ELSE IF eq_ignore_ascii_case(self.link_tag, tag) THEN "link"
    ELSE IF eq_ignore_ascii_case(self.title_tag, tag) THEN "title"
    ELSE "none"

\* the guards of the Text arm's match
MatchText(self, tag) ==
    IF eq_ignore_ascii_case(self.title_tag, tag) THEN "title"
    ELSE IF eq_ignore_ascii_case(self.link_tag, tag) THEN "link"
    ELSE IF eq_ignore_ascii_case(self.author_tag, tag) THEN "author"
    ELSE IF eq_ignore_ascii_case(self.description_tag, tag) THEN "description"
    ELSE IF eq_ignore_ascii_case(self.guid_tag, tag) THEN "guid"
    ELSE IF eq_ignore_ascii_case(self.publish_tag, tag) THEN "publish"
    ELSE "none"

\* the Text arm with the text appended to the field
DispatchText_append(self, tag, last, node_text) ==
    LET f == MatchText(self, tag)
    IN  IF f = "none" THEN last ELSE [last EXCEPT ![f] = @ \o node_text]

\* the Text arm's match: last.<field> = node_text.to_string()
DispatchText(self, tag, last, node_text) ==
    LET f == MatchText(self, tag)
    IN  IF f = "none" THEN last ELSE [last EXCEPT ![f] = node_text]

\* a push at the front of the vector
push_default_front(v) == <<RssItemDefault>> \o v

\* nodes.push(RssItem::default())
push_default(v) == Append(v, RssItemDefault)

\* what parse_vec hands back
NoResult      == [kind |-> "None"]
ResultOk(v)   == [kind |-> "Ok", nodes |-> v]
ResultErr(e)  == [kind |-> "Err", error |-> e]

\* where control goes when parse_vec returns: back into parse_json after
\* "self.parse_vec()", or to the caller
AfterParseVec == IF entry = "parse_json" THEN "json" ELSE "done"

----------------------------------------------------------------------------
(* Operations *)

\* parser.parse_vec() is called: a Reader over self.xml, empty nodes and active
ParseVec ==
    /\ pc = "idle"
    /\ pc' = "scan"
    /\ entry' = "parse_vec"
    /\ reader' = 0
    /\ active' = <<>>
    /\ nodes' = <<>>
    /\ UNCHANGED <<built, other, parser, vec_result, json_result>>

\* parser.parse_json() is called: its first statement is self.parse_vec()
ParseJson ==
    /\ pc = "idle"
    /\ pc' = "scan"
    /\ entry' = "parse_json"
    /\ reader' = 0
    /\ active' = <<>>
    /\ nodes' = <<>>
    /\ UNCHANGED <<built, other, parser, vec_result, json_result>>

\* the Start arm with the active tag in a static that all parsers share
OnStart_shared_active ==
    /\ pc = "scan"
    /\ LET e == read_event(parser.xml, reader)
       IN  /\ e.type = "Start"
           /\ reader' = reader + 1
           /\ IF from_utf8_ok(e.data)
              THEN /\ active' = e.data
                   /\ other' = IF other = [pc |-> "absent"] THEN other
                               ELSE [other EXCEPT !.active = e.data]
                   /\ nodes' = IF eq_ignore_ascii_case(parser.node_tag, e.data)
                               THEN push_default(nodes)
                               ELSE nodes
                   /\ pc' = pc
              ELSE /\ pc' = "panicked"
                   /\ UNCHANGED <<active, nodes, other>>
    /\ UNCHANGED <<built, parser, entry, vec_result, json_result>>

\* Ok(Event::Start(ref e))
OnStart ==
    /\ pc = "scan"
    /\ LET e == read_event(parser.xml, reader)
       IN  /\ e.type = "Start"
           /\ reader' = reader + 1
           /\ IF from_utf8_ok(e.data)
              THEN /\ active' = e.data
                   /\ nodes' = IF eq_ignore_ascii_case(parser.node_tag, e.data)
                               THEN push_default(nodes)
                               ELSE nodes
                   /\ pc' = pc
              ELSE \* .expect("Failed By Parse <Item>")
                   /\ pc' = "panicked"
                   /\ UNCHANGED <<active, nodes>>
    /\ UNCHANGED <<built, other, parser, entry, vec_result, json_result>>

\* Ok(Event::CData(ref e))
OnCData ==
    /\ pc = "scan"
    /\ LET e == read_event(parser.xml, reader)
       IN  /\ e.type = "CData"
           /\ reader' = reader + 1
           /\ IF from_utf8_ok(e.data)
              THEN /\ nodes' = IF nodes # <<>>
                               THEN [nodes EXCEPT ![Len(nodes)] =
                                        DispatchCData(parser, active, @, e.data)]
                               ELSE nodes
                   /\ pc' = pc
              ELSE \* .expect("Failed by Parse <CData>")
                   /\ pc' = "panicked"
                   /\ UNCHANGED nodes
    /\ UNCHANGED <<built, other, parser, entry, active, vec_result, json_result>>

\* the Text arm writing to the first record (nodes.first_mut())
OnText_first ==
    /\ pc = "scan"
    /\ LET e         == read_event(parser.xml, reader)
           node_text == unescape_and_decode(e.data)
       IN  /\ e.type = "Text"
           /\ reader' = reader + 1
           /\ IF node_text.ok
              THEN /\ nodes' = IF nodes # <<>>
                               THEN [nodes EXCEPT ![1] =
                                        DispatchText(parser, active, @, node_text.val)]
                               ELSE nodes
                   /\ pc' = pc
              ELSE /\ pc' = "panicked"
                   /\ UNCHANGED nodes
    /\ UNCHANGED <<built, other, parser, entry, active, vec_result, json_result>>

\* Ok(Event::Text(ref e))
OnText ==
    /\ pc = "scan"
    /\ LET e         == read_event(parser.xml, reader)
           node_text == unescape_and_decode(e.data)
       IN  /\ e.type = "Text"
           /\ reader' = reader + 1
           /\ IF node_text.ok
              THEN /\ nodes' = IF nodes # <<>>
                               THEN [nodes EXCEPT ![Len(nodes)] =
                                        DispatchText(parser, active, @, node_text.val)]
                               ELSE nodes
                   /\ pc' = pc
              ELSE \* .expect("Failed by Parse <Node>")
                   /\ pc' = "panicked"
                   /\ UNCHANGED nodes
    /\ UNCHANGED <<built, other, parser, entry, active, vec_result, json_result>>

\* the Eof arm refusing a document in which no record was found
OnEof_require_items ==
    /\ pc = "scan"
    /\ read_event(parser.xml, reader).type = "Eof"
    /\ vec_result' = IF nodes = <<>>
                     THEN ResultErr([kind |-> "InvalidData", msg |-> "no item"])
                     ELSE ResultOk(nodes)
    /\ pc' = AfterParseVec
    /\ UNCHANGED <<built, other, parser, entry, reader, active, nodes, json_result>>

\* Ok(Event::Eof) => break, then Ok(nodes)
OnEof ==
    /\ pc = "scan"
    /\ read_event(parser.xml, reader).type = "Eof"
    /\ vec_result' = ResultOk(nodes)
    /\ pc' = AfterParseVec
    /\ UNCHANGED <<built, other, parser, entry, reader, active, nodes, json_result>>

\* the Err arm leaving the loop like Eof, with the records read so far
OnErr_partial ==
    /\ pc = "scan"
    /\ read_event(parser.xml, reader).type = "Err"
    /\ vec_result' = ResultOk(nodes)
    /\ reader' = reader + 1
    /\ pc' = AfterParseVec
    /\ UNCHANGED <<built, other, parser, entry, active, nodes, json_result>>

\* Err(e) => return Err(...)
OnErr ==
    /\ pc = "scan"
    /\ LET e == read_event(parser.xml, reader)
       IN  /\ e.type = "Err"
           /\ vec_result' = ResultErr(IoErrorOther(e.err))
    /\ reader' = reader + 1
    /\ pc' = AfterParseVec
    /\ UNCHANGED <<built, other, parser, entry, active, nodes, json_result>>

\* the catch-all arm forgetting the active tag when an element ends
OnOther_clear_active ==
    /\ pc = "scan"
    /\ read_event(parser.xml, reader).type \notin {"Start", "CData", "Text", "Eof", "Err"}
    /\ reader' = reader + 1
    /\ active' = <<>>
    /\ UNCHANGED <<built, other, parser, pc, entry, nodes, vec_result, json_result>>

\* the catch-all arm without the Reader advancing past the event
OnOther_stuck ==
    /\ pc = "scan"
    /\ read_event(parser.xml, reader).type \notin {"Start", "CData", "Text", "Eof", "Err"}
    /\ UNCHANGED <<built, other, parser, pc, entry, reader, active, nodes, vec_result, json_result>>

\* _ => ()
OnOther ==
    /\ pc = "scan"
    /\ read_event(parser.xml, reader).type \notin {"Start", "CData", "Text", "Eof", "Err"}
    /\ reader' = reader + 1
    /\ UNCHANGED <<built, other, parser, pc, entry, active, nodes, vec_result, json_result>>

----------------------------------------------------------------------------
(* parse_json: the json crate's object!, push and dump *)

\* a lowercase hexadecimal digit
HexDigit(v) == IF v < 10 THEN 48 + v ELSE 87 + v

\* a byte written as it is
EscapeByte_raw(b) == <<b>>

\* one byte of a string as dump writes it: the quote, the backslash and the
\* control characters are escaped
EscapeByte(b) ==
    CASE b = 34 -> <<92, 34>>
      [] b = 92 -> <<92, 92>>
      [] b = 8  -> <<92, 98>>
      [] b = 9  -> <<92, 116>>
      [] b = 10 -> <<92, 110>>
      [] b = 12 -> <<92, 102>>
      [] b = 13 -> <<92, 114>>
      [] b < 32 /\ b \notin {8, 9, 10, 12, 13}
                -> <<92, 117, 48, 48, HexDigit(b \div 16), HexDigit(b % 16)>>
      [] OTHER  -> <<b>>

RECURSIVE EscapeFrom(_, _)
EscapeFrom(s, i) ==
    IF i > Len(s) THEN <<>> ELSE EscapeByte(s[i]) \o EscapeFrom(s, i + 1)

\* a string value as dump writes it
DumpString(s) == <<34>> \o EscapeFrom(s, 1) \o <<34>>

\* object!{ "title": node.title, ... }: the entries in insertion order
JsonObject(node) ==
    << <<S_title, node.title>>,
       <<S_link, node.link>>,
       <<S_author, node.author>>,
       <<S_description, node.description>>,
       <<S_guid, node.guid>>,
       <<S_publish, node.publish>> >>

\* the array after "for node in item.into_iter() { ... json.push(data) }"
RECURSIVE JsonArrayFrom(_, _)
JsonArrayFrom(item, i) ==
    IF i > Len(item) THEN <<>>
    ELSE <<JsonObject(item[i])>> \o JsonArrayFrom(item, i + 1)

JsonArray(item) == JsonArrayFrom(item, 1)

RECURSIVE DumpEntries(_, _)
DumpEntries(obj, i) ==
    IF i > Len(obj) THEN <<>>
    ELSE (IF i > 1 THEN <<44>> ELSE <<>>)
         \o DumpString(obj[i][1]) \o <<58>> \o DumpString(obj[i][2])
         \o DumpEntries(obj, i + 1)

DumpObject(obj) == <<123>> \o DumpEntries(obj, 1) \o <<125>>

RECURSIVE DumpElements(_, _)
DumpElements(arr, i) ==
    IF i > Len(arr) THEN <<>>
    ELSE (IF i > 1 THEN <<44>> ELSE <<>>)
         \o DumpObject(arr[i]) \o DumpElements(arr, i + 1)

\* json.dump(): the compact text of the array
Dump(arr) == <<91>> \o DumpElements(arr, 1) \o <<93>>

\* what parse_json hands back
JsonOk(text) == [kind |-> "Ok", text |-> text]
JsonErr(e)   == [kind |-> "Err", error |-> e]

\* parse_json after self.parse_vec() has returned: "?" hands an error on,
\* otherwise the items are pushed onto the array and the array is dumped
ParseJsonReturn ==
    /\ pc = "json"
    /\ json_result' = IF vec_result.kind = "Err"
                      THEN JsonErr(vec_result.error)
                      ELSE JsonOk(Dump(JsonArray(vec_result.nodes)))
    /\ pc' = "done"
    /\ UNCHANGED <<built, other, parser, entry, reader, active, nodes, vec_result>>

----------------------------------------------------------------------------
(* The text of a document, check_xml, from_str and set_xml *)

S_xml == <<120, 109, 108>>
S_XML == <<88, 77, 76>>
S_Xml == <<88, 109, 108>>
S_RSS == <<82, 83, 83>>
S_Rss == <<82, 115, 115>>
\* <?xml version="1.0"?>
S_decl ==
    <<60, 63, 120, 109, 108, 32, 118, 101, 114, 115, 105, 111, 110, 61,
      34, 49, 46, 48, 34, 63, 62>>
\* <![CDATA[ and ]]>
S_cdata_open  == <<60, 33, 91, 67, 68, 65, 84, 65, 91>>
S_cdata_close == <<93, 93, 62>>

XML_DEFAULT_TAG == S_xml
RSS_DEFAULT_TAG == S_rss

\* the names of the elements open after the first n events of xml
RECURSIVE OpenElements(_, _)
OpenElements(xml, n) ==
    IF n = 0 THEN <<>>
    ELSE LET open == OpenElements(xml, n - 1)
         IN  CASE xml[n].type = "Start" -> Append(open, xml[n].data)
               [] xml[n].type = "End" /\ open # <<>> -> SubSeq(open, 1, Len(open) - 1)
               [] OTHER -> open

\* markup on which the Reader reports error e
ErrMarkup(e) ==
    CASE e = 1 -> <<60, 97>>
      [] e = 2 -> <<60, 47, 98, 62>>
      [] OTHER -> <<60, 33, 45, 45, 45, 45, 62>>

\* the characters of self.xml from which the Reader yields event n
Markup(xml, n) ==
    LET e == xml[n]
    IN  CASE e.type = "Start" -> <<60>> \o e.data \o <<62>>
          [] e.type = "End" ->
                LET open == OpenElements(xml, n - 1)
                IN  <<60, 47>> \o (IF open = <<>> THEN <<>> ELSE open[Len(open)]) \o <<62>>
          [] e.type = "Text" -> e.data
          [] e.type = "CData" -> S_cdata_open \o e.data \o S_cdata_close
          [] e.type = "Decl" -> S_decl
          [] OTHER -> ErrMarkup(e.err)

RECURSIVE TextUpTo(_, _)
TextUpTo(xml, n) == IF n = 0 THEN <<>> ELSE TextUpTo(xml, n - 1) \o Markup(xml, n)

\* self.xml as the String it is: the text the Reader yields the events from
xml_text(xml) == TextUpTo(xml, Len(xml))

\* str::to_uppercase, on ASCII
to_uppercase(s) == [i \in 1..Len(s) |-> IF s[i] \in 97..122 THEN s[i] - 32 ELSE s[i]]

\* str::contains
contains(s, pat) ==
    \E i \in 1..(Len(s) - Len(pat) + 1) : SubSeq(s, i, i + Len(pat) - 1) = pat

\* RssParser::check_xml
check_xml(self) ==
    LET text == xml_text(self.xml)
    IN  IF ~contains(text, XML_DEFAULT_TAG)
           /\ ~contains(text, to_uppercase(XML_DEFAULT_TAG)) THEN FALSE
        ELSE IF ~contains(text, RSS_DEFAULT_TAG)
                /\ ~contains(text, to_uppercase(RSS_DEFAULT_TAG)) THEN FALSE
        ELSE TRUE

\* std::io::Error::new(std::io::ErrorKind::InvalidData, "Failed by RssParser::check_xml")
IoErrorInvalidData == [kind |-> "InvalidData", msg |-> "Failed by RssParser::check_xml"]

\* set_xml with the pre-check of from_str in it
SetXml_checked(xml) ==
    /\ pc = "idle"
    /\ parser' = [parser EXCEPT !.xml = xml]
    /\ built' = [by |-> "set_xml", arg |-> xml]
    /\ pc' = IF check_xml(parser') THEN "idle" ELSE "rejected"
    /\ UNCHANGED <<other, entry, reader, active, nodes, vec_result, json_result>>

\* parser.set_xml(xml)
SetXml(xml) ==
    /\ pc = "idle"
    /\ parser' = [parser EXCEPT !.xml = xml]
    /\ built' = [by |-> "set_xml", arg |-> xml]
    /\ UNCHANGED <<other, pc, entry, reader, active, nodes, vec_result, json_result>>

\* RssParser::from_str(xml): a new parser with the document, returned only
\* if check_xml accepts it; otherwise the caller gets the error and no parser
FromStr(xml) ==
    /\ pc = "idle"
    /\ parser' = [RssParserNew EXCEPT !.xml = xml]
    /\ IF ~check_xml(parser')
       THEN /\ built' = [by |-> "from_str", arg |-> xml, kind |-> "Err",
                         error |-> IoErrorInvalidData]
            /\ pc' = "rejected"
       ELSE /\ built' = [by |-> "from_str", arg |-> xml, kind |-> "Ok"]
            /\ pc' = "idle"
    /\ UNCHANGED <<other, entry, reader, active, nodes, vec_result, json_result>>

----------------------------------------------------------------------------
(* Calls after the first, and a second parser *)

\* a later parser.parse_vec() with its locals kept from the call before
ParseVecAgain_keep_locals ==
    /\ pc = "done"
    /\ pc' = "scan"
    /\ entry' = "parse_vec"
    /\ reader' = 0
    /\ UNCHANGED <<built, other, parser, active, nodes, vec_result, json_result>>

\* parser.parse_vec() called again on a parser whose call before has
\* returned: a new Reader over self.xml, new locals
ParseVecAgain ==
    /\ pc = "done"
    /\ pc' = "scan"
    /\ entry' = "parse_vec"
    /\ reader' = 0
    /\ active' = <<>>
    /\ nodes' = <<>>
    /\ UNCHANGED <<built, other, parser, vec_result, json_result>>

\* parser.parse_json() called again
ParseJsonAgain ==
    /\ pc = "done"
    /\ pc' = "scan"
    /\ entry' = "parse_json"
    /\ reader' = 0
    /\ active' = <<>>
    /\ nodes' = <<>>
    /\ UNCHANGED <<built, other, parser, vec_result, json_result>>

\* no second parser
NoRun == [pc |-> "absent"]

\* the parser and the run of the thread that is stepping
Run ==
    [parser |-> parser, pc |-> pc, entry |-> entry, reader |-> reader,
     active |-> active, nodes |-> nodes, vec_result |-> vec_result,
     json_result |-> json_result, built |-> built]

\* the scheduler lets the other thread step: the two parsers, each with the
\* locals of its own parse_vec, change places
Switch ==
    /\ other # NoRun
    /\ parser' = other.parser
    /\ pc' = other.pc
    /\ entry' = other.entry
    /\ reader' = other.reader
    /\ active' = other.active
    /\ nodes' = other.nodes
    /\ vec_result' = other.vec_result
    /\ json_result' = other.json_result
    /\ built' = other.built
    /\ other' = Run

----------------------------------------------------------------------------
(* Documents and mappings the model scans *)

\* number of elements open after the first n events of xml
RECURSIVE Depth(_, _)
Depth(xml, n) ==
    IF n = 0 THEN 0
    ELSE Depth(xml, n - 1)
         + (CASE xml[n].type = "Start" -> 1 [] xml[n].type = "End" -> -1 [] OTHER -> 0)

\* an event sequence the Reader can yield: with check_end_names(true) an end
\* tag is an End event only if it closes an open element (otherwise it is an
\* Err), and the text between two pieces of markup is one Text event
Producible(xml) ==
    /\ \A n \in 1..Len(xml) : xml[n].type = "End" => Depth(xml, n - 1) > 0
    /\ \A n \in 1..Len(xml) - 1 : ~(xml[n].type = "Text" /\ xml[n + 1].type = "Text")

SeqsUpTo(A, n) == {xml \in UNION {[1..k -> A] : k \in 0..n} : Producible(xml)}

\* the parser after new() and the caller's assignments to its public tags
DefaultMapping == RssParserNew
ShoutedMapping == [RssParserNew EXCEPT !.node_tag = S_ITEM, !.title_tag = S_Title]

TagOf == <<"title_tag", "link_tag", "author_tag",
           "description_tag", "guid_tag", "publish_tag">>

\* the tag of field f overridden to a name no element of the documents has
OverrideMapping(f) == [RssParserNew EXCEPT ![TagOf[f]] = S_dc_creator]
OverrideMappings == {OverrideMapping(f) : f \in 1..Len(Fields)}
DcCreatorMapping == [RssParserNew EXCEPT !.author_tag = S_dc_creator]

\* two fields (mis)configured with the same name X
TieMapping(f, g) == [RssParserNew EXCEPT ![TagOf[f]] = S_X, ![TagOf[g]] = S_X]
TieMappings ==
    {TieMapping(f, g) : f, g \in 1..Len(Fields)}
    \ {TieMapping(f, f) : f \in 1..Len(Fields)}

\* every short event sequence over these events
GeneralEvents ==
    {Start(S_item), Start(S_ITEM), Start(S_title), Start(S_rss),
     Text(S_A), Text(S_foo_entity), CData(S_B), End, Err(1), Err(2)}
GeneralDocs == SeqsUpTo(GeneralEvents, MaxLen)

\* one container start followed by every short sequence of these events
BodyEvents ==
    {Start(S_item), Start(S_Title), Start(S_link),
     Text(S_A), Text(S_amp_entity), CData(S_quote_backslash), End}
BodyDocs ==
    {xml \in {<<Start(S_item)>> \o b : b \in UNION {[1..k -> BodyEvents] : k \in 0..MaxBody}} :
        Producible(xml)}

\* one container with two elements, each with one text or CDATA event
RepeatNames == {S_title, S_Title, S_link}
RepeatContents == {Text(S_A), Text(S_amp_entity), CData(S_B), CData(S_amp_entity)}
RepeatDocs ==
    {<<Start(S_item), Start(n1), c1, End, Start(n2), c2, End, End>> :
        n1 \in RepeatNames, n2 \in RepeatNames,
        c1 \in RepeatContents, c2 \in RepeatContents}

\* short sequences about an element X
TieEvents == {Start(S_item), Start(S_X), Start(S_x), Text(S_A), CData(S_B), End}
TieDocs == SeqsUpTo(TieEvents, MaxTieLen)

\* the document of tests::future_rss_builder, its six elements in any order
\* "Hey!"
V_title == <<72, 101, 121, 33>>
\* "examples.com"
V_link == <<101, 120, 97, 109, 112, 108, 101, 115, 46, 99, 111, 109>>
\* "MeteorCat"
V_author == <<77, 101, 116, 101, 111, 114, 67, 97, 116>>
\* "hello.world!"
V_description == <<104, 101, 108, 108, 111, 46, 119, 111, 114, 108, 100, 33>>
\* "unique key"
V_guid == <<117, 110, 105, 113, 117, 101, 32, 107, 101, 121>>
\* "2020-05-28 15:00:00"
V_publish == <<50, 48, 50, 48, 45, 48, 53, 45, 50, 56, 32, 49, 53, 58, 48, 48, 58, 48, 48>>

ElementName == <<S_title, S_link, S_author, S_description, S_guid, S_pubDate>>
ElementText == <<V_title, V_link, V_author, V_description, V_guid, V_publish>>
Element(i) == <<Start(ElementName[i]), Text(ElementText[i]), End>>

Perms ==
    {p \in [1..Len(Fields) -> 1..Len(Fields)] :
        \A i, j \in 1..Len(Fields) : p[i] = p[j] => i = j}

SixFieldDoc(p) ==
    <<Decl, Start(S_rss), Start(S_item)>>
    \o Element(p[1]) \o Element(p[2]) \o Element(p[3])
    \o Element(p[4]) \o Element(p[5]) \o Element(p[6])
    \o <<End, End>>
SixFieldDocs == {SixFieldDoc(p) : p \in Perms}

\* the six elements in the order of the test and its rotations
Rotation(k) == [i \in 1..Len(Fields) |-> ((i + k) % Len(Fields)) + 1]
RotatedDocs == {SixFieldDoc(Rotation(k)) : k \in 1..Len(Fields)}

\* the pairs (tags, document) a run starts from
Inputs ==
    ({DefaultMapping, ShoutedMapping} \X GeneralDocs)
    \cup ({DefaultMapping} \X BodyDocs)
    \cup ({DefaultMapping} \X RepeatDocs)
    \cup ({DefaultMapping, DcCreatorMapping} \X SixFieldDocs)
    \cup (OverrideMappings \X RotatedDocs)
    \cup (TieMappings \X TieDocs)

\* documents for from_str and set_xml: a beginning with or without "xml" and
\* "rss" in lower, upper or mixed case, and every short body of these events
Prologs ==
    {<<>>, <<Decl>>, <<Start(S_rss)>>,
     <<Decl, Start(S_rss)>>, <<Decl, Start(S_Rss)>>, <<Decl, Start(S_RSS)>>,
     <<Start(S_Xml), Start(S_rss)>>, <<Start(S_XML), Start(S_RSS)>>}
LifeEvents ==
    {Start(S_item), Start(S_title), Text(S_A), Text(S_foo_entity),
     CData(S_B), End, Err(1)}
LifeDocs ==
    {xml \in {p \o b : p \in Prologs,
                       b \in UNION {[1..k -> LifeEvents] : k \in 0..MaxLifeLen}} :
        Producible(xml)}

\* documents and tags for two parsers: <item><title> and one more event
TwoEvents ==
    {Start(S_item), Start(S_title), Text(S_A), Text(S_foo_entity),
     CData(S_B), End, Err(1)}
TwoDocs ==
    {<<Start(S_item), Start(S_title)>> \o t :
        t \in UNION {[1..k -> TwoEvents] : k \in 0..MaxTwoLen}}
TwoInputs == {DefaultMapping, OverrideMapping(1)} \X TwoDocs

----------------------------------------------------------------------------
(* Specification *)

\* a parser built by new(), its tags set by the caller, its document by set_xml
Init ==
    /\ \E in \in Inputs :
          /\ parser = [in[1] EXCEPT !.xml = in[2]]
          /\ built = [by |-> "set_xml", arg |-> in[2]]
    /\ other = NoRun
    /\ pc = "idle"
    /\ entry = "none"
    /\ reader = 0
    /\ active = <<>>
    /\ nodes = <<>>
    /\ vec_result = NoResult
    /\ json_result = NoResult

Next ==
    \/ ParseVec
    \/ ParseJson
    \/ OnStart
    \/ OnCData
    \/ OnText
    \/ OnEof
    \/ OnErr
    \/ OnOther
    \/ ParseJsonReturn

Spec == Init /\ [][Next]_vars

\* a parser as new() returns it: the caller gives it a document with
\* set_xml, or builds another parser with from_str, and then calls
\* parse_vec and parse_json any number of times
LifeInit ==
    /\ parser = RssParserNew
    /\ built = [by |-> "new"]
    /\ other = NoRun
    /\ pc = "idle"
    /\ entry = "none"
    /\ reader = 0
    /\ active = <<>>
    /\ nodes = <<>>
    /\ vec_result = NoResult
    /\ json_result = NoResult

LifeNext ==
    \/ built.by = "new" /\ \E xml \in LifeDocs : SetXml(xml)
    \/ built.by = "new" /\ \E xml \in LifeDocs : FromStr(xml)
    \/ ParseVec
    \/ ParseJson
    \/ ParseVecAgain
    \/ ParseJsonAgain
    \/ OnStart
    \/ OnCData
    \/ OnText
    \/ OnEof
    \/ OnErr
    \/ OnOther
    \/ ParseJsonReturn

LifeSpec == LifeInit /\ [][LifeNext]_vars

\* a parser with its tags and document, before its first call
IdleRun(in) ==
    [parser |-> [in[1] EXCEPT !.xml = in[2]], pc |-> "idle", entry |-> "none",
     reader |-> 0, active |-> <<>>, nodes |-> <<>>, vec_result |-> NoResult,
     json_result |-> NoResult, built |-> [by |-> "set_xml", arg |-> in[2]]]

\* two threads, each with a parser of its own, each calling parse_vec
TwoInit ==
    \E a \in TwoInputs, b \in TwoInputs :
        /\ parser = IdleRun(a).parser
        /\ built = IdleRun(a).built
        /\ other = IdleRun(b)
        /\ pc = "idle"
        /\ entry = "none"
        /\ reader = 0
        /\ active = <<>>
        /\ nodes = <<>>
        /\ vec_result = NoResult
        /\ json_result = NoResult

TwoNext ==
    \/ Switch
    \/ ParseVec
    \/ OnStart
    \/ OnCData
    \/ OnText
    \/ OnEof
    \/ OnErr
    \/ OnOther

TwoSpec == TwoInit /\ [][TwoNext]_vars

----------------------------------------------------------------------------
(* Vocabulary of the properties: what a document says, read off the        *)
(* document itself and not off the scan                                     *)

Xml == parser.xml

\* parse_vec has returned (to its caller or into parse_json)
Returned == pc \in {"json", "done"}

IsLetter(c) == c \in 65..90 \/ c \in 97..122

\* a and b are the same name up to the case of their ASCII letters
SameIgnoringCase(a, b) ==
    /\ Len(a) = Len(b)
    /\ \A i \in 1..Len(a) :
          \/ a[i] = b[i]
          \/ /\ IsLetter(a[i])
             /\ IsLetter(b[i])
             /\ (a[i] - b[i] = 32 \/ b[i] - a[i] = 32)

\* an error of the Reader, or an event whose bytes cannot be decoded
DecodeFails(e) ==
    \/ e.type \in {"Start", "CData"} /\ ~from_utf8_ok(e.data)
    \/ e.type = "Text" /\ ~unescape_and_decode(e.data).ok
Malformed(e) == e.type = "Err" \/ DecodeFails(e)
WellFormedDoc == \A n \in 1..Len(Xml) : ~Malformed(Xml[n])

SetMax(S) == CHOOSE n \in S : \A m \in S : m <= n
SetMin(S) == CHOOSE n \in S : \A m \in S : n <= m

\* the positions of the container start events
ContainerStarts ==
    {n \in 1..Len(Xml) :
        Xml[n].type = "Start" /\ SameIgnoringCase(parser.node_tag, Xml[n].data)}

\* the number of the record that is last when event n is read (0: none)
RecordAt(n) == Cardinality({m \in ContainerStarts : m < n})

\* the name of the last start event before event n, empty if there is none
ActiveAt(n) ==
    LET B == {m \in 1..(n - 1) : Xml[m].type = "Start"}
    IN  IF B = {} THEN <<>> ELSE Xml[SetMax(B)].data

\* the number of the first field, in the order of Fields, whose configured
\* tag is the given name up to case (0: none)
FieldOfTag(tag) ==
    LET M == {f \in 1..Len(Fields) : SameIgnoringCase(parser[TagOf[f]], tag)}
    IN  IF M = {} THEN 0 ELSE SetMin(M)

\* the content of the text or CDATA event n
Content(n) ==
    IF Xml[n].type = "Text" THEN unescape_and_decode(Xml[n].data).val
    ELSE Xml[n].data

\* where event n is written: the record and the field (<<0, 0>> for an
\* event that is neither text nor CDATA)
Target(n) ==
    IF Xml[n].type \in {"Text", "CData"}
    THEN <<RecordAt(n), FieldOfTag(ActiveAt(n))>>
    ELSE <<0, 0>>

\* the sequence Target(1), ..., Target(n)
RECURSIVE TargetsUpTo(_)
TargetsUpTo(n) == IF n = 0 THEN <<>> ELSE Append(TargetsUpTo(n - 1), Target(n))
Targets == TargetsUpTo(Len(Xml))

\* the text and CDATA events that belong to field f of record i, T being Targets
Routed(T, i, f) == {n \in 1..Len(T) : T[n] = <<i, f>>}

\* a record as it is created: six empty strings
AllFieldsEmpty(r) == \A f \in 1..Len(Fields) : r[Fields[f]] = <<>>

ExpectedField(T, i, f) ==
    IF Routed(T, i, f) = {} THEN <<>> ELSE Content(SetMax(Routed(T, i, f)))

ExpectedRecord(T, i) ==
    [title       |-> ExpectedField(T, i, 1),
     link        |-> ExpectedField(T, i, 2),
     author      |-> ExpectedField(T, i, 3),
     description |-> ExpectedField(T, i, 4),
     guid        |-> ExpectedField(T, i, 5),
     publish     |-> ExpectedField(T, i, 6)]

----------------------------------------------------------------------------
(* Properties *)

\* C1: for a document without a malformed event (no Reader error, no event
\* that fails to decode), parse_vec returns Ok with one record per container
\* start event, and the i-th record is the one of the i-th container start:
\* its fields hold what the events between that start and the next wrote.
C1_OneRecordPerContainer ==
    (Returned /\ WellFormedDoc) =>
        /\ vec_result.kind = "Ok"
        /\ Len(vec_result.nodes) = Cardinality(ContainerStarts)
        /\ LET T == Targets
           IN  \A i \in 1..Len(vec_result.nodes) :
                  vec_result.nodes[i] = ExpectedRecord(T, i)

\* two containers with different contents were scanned and returned in order
C1_Witness ==
    /\ Returned
    /\ WellFormedDoc
    /\ vec_result.kind = "Ok"
    /\ Cardinality(ContainerStarts) = 2
    /\ Len(vec_result.nodes) = 2
    /\ vec_result.nodes[1] # vec_result.nodes[2]
    /\ ~AllFieldsEmpty(vec_result.nodes[2])

\* the tags of the parser, without its document
Mapping == [parser EXCEPT !.xml = <<>>]

\* the record of the documentation's example
ExampleRecord ==
    [title |-> V_title, link |-> V_link, author |-> V_author,
     description |-> V_description, guid |-> V_guid, publish |-> V_publish]

\* C2: with the default tags, a container with one element per field, each
\* with one text event, in any order of the six elements, gives exactly one
\* record, and each field holds the text of its own element.
C2_DefaultMappingExample ==
    (Returned /\ Mapping = DefaultMapping /\ Xml \in SixFieldDocs) =>
        vec_result = ResultOk(<<ExampleRecord>>)

\* the example was scanned with pubDate as its first and title as its last element
C2_Witness ==
    /\ Returned
    /\ Mapping = DefaultMapping
    /\ Xml \in SixFieldDocs
    /\ Xml[4] = Start(S_pubDate)
    /\ Xml[19] = Start(S_title)
    /\ vec_result.kind = "Ok"
    /\ Len(vec_result.nodes) = 1

\* C3: with the tag of one field overridden to a name no element of the
\* document has, the record has that field empty and every other field as
\* with the default tags: the element with the old default name writes nowhere.
C3_OverriddenTagLeavesFieldEmpty ==
    \A f \in 1..Len(Fields) :
        (Returned /\ Mapping = OverrideMapping(f) /\ Xml \in SixFieldDocs) =>
            vec_result = ResultOk(<<[ExampleRecord EXCEPT ![Fields[f]] = <<>>]>>)

\* the example was scanned with author_tag = "dc:creator"
C3_Witness ==
    /\ Returned
    /\ Mapping = DcCreatorMapping
    /\ Xml \in SixFieldDocs
    /\ \E n \in 1..Len(Xml) : Xml[n] = Start(S_author)
    /\ vec_result.kind = "Ok"
    /\ vec_result.nodes[1].author = <<>>
    /\ vec_result.nodes[1].title = V_title

\* the step of the loop that reads one event and goes on
Consumed == pc = "scan" /\ pc' = "scan" /\ reader' = reader + 1

\* C4: tags are recognised whatever the case of their ASCII letters: a start
\* event whose name is node_tag up to case appends a default record, and a
\* text or CDATA event read while the active tag is a field's tag up to case
\* is written to that field of the last record.
C4_CaseInsensitive ==
    [][Consumed =>
        LET e == read_event(Xml, reader)
        IN  /\ (e.type = "Start" /\ SameIgnoringCase(parser.node_tag, e.data)) =>
                   /\ Len(nodes') = Len(nodes) + 1
                   /\ SubSeq(nodes', 1, Len(nodes)) = nodes
                   /\ AllFieldsEmpty(nodes'[Len(nodes')])
            /\ (e.type \in {"Text", "CData"} /\ nodes # <<>> /\ FieldOfTag(active) # 0) =>
                   /\ Len(nodes') = Len(nodes)
                   /\ nodes'[Len(nodes)][Fields[FieldOfTag(active)]] = Content(reader + 1)
    ]_vars

\* <item> opened a record for node_tag "ITEM", and the content under <title>
\* was written to the title for title_tag "Title"
C4_Witness ==
    /\ pc = "scan"
    /\ parser.node_tag = S_ITEM
    /\ parser.title_tag = S_Title
    /\ reader = 3
    /\ Xml[1] = Start(S_item)
    /\ Xml[2] = Start(S_title)
    /\ Xml[3].type \in {"Text", "CData"}
    /\ Len(nodes) = 1
    /\ nodes[1].title = Content(3)

\* C5: when two or more text or CDATA events are written to the same field
\* of the same record, the field ends up with exactly the content of the
\* last of them: a write replaces, it never appends.
C5_LastWriteWins ==
    (Returned /\ vec_result.kind = "Ok") =>
        LET T == Targets
        IN  \A i \in 1..Len(vec_result.nodes) : \A f \in 1..Len(Fields) :
               Cardinality(Routed(T, i, f)) >= 2 =>
                   vec_result.nodes[i][Fields[f]] = Content(SetMax(Routed(T, i, f)))

\* <title>A</title><title>&amp;</title> in one container: the title is "&"
C5_Witness ==
    /\ Returned
    /\ vec_result.kind = "Ok"
    /\ Len(Xml) = 8
    /\ Xml[2] = Start(S_title) /\ Xml[3] = Text(S_A) /\ Xml[4] = End
    /\ Xml[5] = Start(S_title) /\ Xml[6] = Text(S_amp_entity)
    /\ Routed(Targets, 1, 1) = {3, 6}
    /\ vec_result.nodes[1].title = S_amp

\* C6: when two fields are configured with the same name, a text or CDATA
\* event under an element of that name is written to the one that comes
\* first in the order title, link, author, description, guid, publish, and
\* the other field of every record stays as it was created.
C6_FirstFieldWins ==
    \A f, g \in 1..Len(Fields) :
        (f < g /\ SameIgnoringCase(parser[TagOf[f]], parser[TagOf[g]])) =>
            /\ \A i \in 1..Len(nodes) : nodes[i][Fields[g]] = <<>>
            /\ (/\ pc = "scan"
                /\ reader > 0
                /\ Xml[reader].type \in {"Text", "CData"}
                /\ nodes # <<>>
                /\ FieldOfTag(active) = f) =>
                   nodes[Len(nodes)][Fields[f]] = Content(reader)

\* author_tag = description_tag = "X": the CDATA under <X> is the author
C6_Witness ==
    /\ pc = "scan"
    /\ Mapping = TieMapping(3, 4)
    /\ reader = 3
    /\ Xml[2] = Start(S_X)
    /\ Xml[3] = CData(S_B)
    /\ Len(nodes) = 1
    /\ nodes[1].author = S_B
    /\ nodes[1].description = <<>>

ErrEvents == {n \in 1..Len(Xml) : Xml[n].type = "Err"}

\* C7: the scan never reads past the first error of the Reader, and having
\* read it parse_vec has returned Err with the Reader's diagnostic and
\* without the records accumulated so far.
C7_ErrorStopsScan ==
    ErrEvents # {} =>
        LET j == SetMin(ErrEvents)
        IN  /\ reader <= j
            /\ reader = j =>
                  /\ Returned
                  /\ vec_result.kind = "Err"
                  /\ vec_result.error = [kind |-> "Other", msg |-> DebugFmt(Xml[j].err)]
                  /\ DOMAIN vec_result = {"kind", "error"}

\* a record had been appended when the error was read, and an event follows it
C7_Witness ==
    /\ Returned
    /\ vec_result.kind = "Err"
    /\ reader = 2
    /\ Len(Xml) = 3
    /\ Xml[2] = Err(2)
    /\ nodes # <<>>

\* C8, as claimed: an event that fails to decode makes parse_vec return Err
\* without records; the scan does not panic.
C8_DecodeFailureIsTypedError ==
    (reader > 0 /\ DecodeFails(Xml[reader])) =>
        /\ pc # "panicked"
        /\ Returned
        /\ vec_result.kind = "Err"
        /\ DOMAIN vec_result = {"kind", "error"}

\* the position of the End event that closes the element started at c
\* (Len(Xml) + 1 if it is never closed)
EndOf(c) ==
    LET E == {n \in (c + 1)..Len(Xml) : Depth(Xml, n) < Depth(Xml, c)}
    IN  IF E = {} THEN Len(Xml) + 1 ELSE SetMin(E)

\* the position of the i-th container start
NthContainer(i) ==
    CHOOSE c \in ContainerStarts : Cardinality({m \in ContainerStarts : m <= c}) = i

\* the position of the next container start after c (Len(Xml) + 1 if none)
NextContainer(c) ==
    LET N == {n \in ContainerStarts : n > c}
    IN  IF N = {} THEN Len(Xml) + 1 ELSE SetMin(N)

\* a start event named like one of the six fields at one of the positions
FieldStartIn(from, to) ==
    \E n \in from..to : Xml[n].type = "Start" /\ FieldOfTag(Xml[n].data) # 0

\* C9, as claimed: a record whose container element has no element named
\* like a field inside it has six empty fields, whatever follows its end.
C9_NoChildNoField ==
    (Returned /\ vec_result.kind = "Ok") =>
        \A i \in 1..Len(vec_result.nodes) :
            LET c == NthContainer(i)
            IN  ~FieldStartIn(c + 1, EndOf(c) - 1) =>
                    AllFieldsEmpty(vec_result.nodes[i])

\* C9, amended: a record with no start event named like a field between its
\* container start and the next container start (or the end of the document)
\* has six empty fields.
C9_NoFieldElementNoField ==
    (Returned /\ vec_result.kind = "Ok") =>
        \A i \in 1..Len(vec_result.nodes) :
            LET c == NthContainer(i)
            IN  ~FieldStartIn(c, NextContainer(c) - 1) =>
                    AllFieldsEmpty(vec_result.nodes[i])

\* <item></item><item><Title>A... : the first record is empty, the second is not
C9_Witness ==
    /\ Returned
    /\ vec_result.kind = "Ok"
    /\ Len(vec_result.nodes) = 2
    /\ Xml[2] = End
    /\ ~FieldStartIn(1, NextContainer(1) - 1)
    /\ AllFieldsEmpty(vec_result.nodes[1])
    /\ ~AllFieldsEmpty(vec_result.nodes[2])

----------------------------------------------------------------------------
(* Reading compact JSON text back: an array of objects whose members are   *)
(* strings                                                                  *)

ReadFailed == [ok |-> FALSE, val |-> <<>>, next |-> 0]
ReadOk(v, n) == [ok |-> TRUE, val |-> v, next |-> n]

\* the string whose bytes after the opening quote start at s[i], acc being
\* what was read of it so far
RECURSIVE ReadStringFrom(_, _, _)
ReadStringFrom(s, i, acc) ==
    IF i > Len(s) THEN ReadFailed
    ELSE IF s[i] = 34 THEN ReadOk(acc, i + 1)
    ELSE IF s[i] < 32 THEN ReadFailed
    ELSE IF s[i] # 92 THEN ReadStringFrom(s, i + 1, Append(acc, s[i]))
    ELSE IF i + 1 > Len(s) THEN ReadFailed
    ELSE LET c == s[i + 1]
         IN  CASE c \in {34, 92, 47} -> ReadStringFrom(s, i + 2, Append(acc, c))
               [] c = 98  -> ReadStringFrom(s, i + 2, Append(acc, 8))
               [] c = 102 -> ReadStringFrom(s, i + 2, Append(acc, 12))
               [] c = 110 -> ReadStringFrom(s, i + 2, Append(acc, 10))
               [] c = 114 -> ReadStringFrom(s, i + 2, Append(acc, 13))
               [] c = 116 -> ReadStringFrom(s, i + 2, Append(acc, 9))
               [] c = 117 ->
                    IF i + 5 > Len(s) THEN ReadFailed
                    ELSE LET v == ParseNumber(SubSeq(s, i + 2, i + 5), 1, 16, 0)
                         IN  IF v < 0 THEN ReadFailed
                             ELSE ReadStringFrom(s, i + 6, acc \o EncodeUtf8(v))
               [] OTHER -> ReadFailed

ReadString(s, i) ==
    IF i > Len(s) \/ s[i] # 34 THEN ReadFailed ELSE ReadStringFrom(s, i + 1, <<>>)

\* the members "key":"value" of an object from s[i] up to its closing brace
RECURSIVE ReadMembers(_, _, _)
ReadMembers(s, i, acc) ==
    LET k == ReadString(s, i)
    IN  IF ~k.ok \/ k.next > Len(s) \/ s[k.next] # 58 THEN ReadFailed
        ELSE LET v == ReadString(s, k.next + 1)
             IN  IF ~v.ok \/ v.next > Len(s) THEN ReadFailed
                 ELSE IF s[v.next] = 44
                      THEN ReadMembers(s, v.next + 1, Append(acc, <<k.val, v.val>>))
                 ELSE IF s[v.next] = 125
                      THEN ReadOk(Append(acc, <<k.val, v.val>>), v.next + 1)
                 ELSE ReadFailed

ReadObject(s, i) ==
    IF i + 1 > Len(s) \/ s[i] # 123 THEN ReadFailed
    ELSE IF s[i + 1] = 125 THEN ReadOk(<<>>, i + 2)
    ELSE ReadMembers(s, i + 1, <<>>)

\* the objects of an array from s[i] up to its closing bracket
RECURSIVE ReadElements(_, _, _)
ReadElements(s, i, acc) ==
    LET o == ReadObject(s, i)
    IN  IF ~o.ok \/ o.next > Len(s) THEN ReadFailed
        ELSE IF s[o.next] = 44 THEN ReadElements(s, o.next + 1, Append(acc, o.val))
        ELSE IF s[o.next] = 93 THEN ReadOk(Append(acc, o.val), o.next + 1)
        ELSE ReadFailed

\* the array a JSON text denotes: a sequence of objects, each the sequence
\* of its <<key, value>> members
JsonRead(s) ==
    IF Len(s) < 2 \/ s[1] # 91 THEN ReadFailed
    ELSE IF s[2] = 93 THEN (IF Len(s) = 2 THEN ReadOk(<<>>, 3) ELSE ReadFailed)
    ELSE LET r == ReadElements(s, 2, <<>>)
         IN  IF r.ok /\ r.next = Len(s) + 1 THEN r ELSE ReadFailed

\* the key of each field in the JSON objects
KeyOf == <<S_title, S_link, S_author, S_description, S_guid, S_publish>>

\* the values an object has under a key
ValuesOf(o, k) == {o[j][2] : j \in {m \in 1..Len(o) : o[m][1] = k}}

\* C10: when parse_vec succeeds with N records, parse_json returns the text
\* of a JSON array of N objects in the same order, each with exactly the six
\* keys title, link, author, description, guid, publish, whose values are
\* the record's fields; when parse_vec fails, parse_json fails with the
\* same error and returns no text.
C10_JsonMatchesRecords ==
    (pc = "done" /\ entry = "parse_json") =>
        /\ vec_result.kind = "Ok" =>
              /\ json_result.kind = "Ok"
              /\ DOMAIN json_result = {"kind", "text"}
              /\ LET r == JsonRead(json_result.text)
                 IN  /\ r.ok
                     /\ Len(r.val) = Len(vec_result.nodes)
                     /\ \A i \in 1..Len(r.val) :
                           /\ Len(r.val[i]) = Len(Fields)
                           /\ \A f \in 1..Len(Fields) :
                                 ValuesOf(r.val[i], KeyOf[f]) =
                                     {vec_result.nodes[i][Fields[f]]}
        /\ vec_result.kind = "Err" =>
              /\ json_result.kind = "Err"
              /\ json_result.error = vec_result.error
              /\ DOMAIN json_result = {"kind", "error"}

\* two records were dumped, one with a quote and a backslash in its title,
\* the other with six empty fields
C10_Witness ==
    /\ pc = "done"
    /\ entry = "parse_json"
    /\ vec_result.kind = "Ok"
    /\ json_result.kind = "Ok"
    /\ Len(vec_result.nodes) = 2
    /\ vec_result.nodes[1].title = S_quote_backslash
    /\ AllFieldsEmpty(vec_result.nodes[2])

\* C11: parse_vec fails only on a malformed event. For a document without
\* one (empty, without a container, with unknown elements, with fields
\* missing, with text outside every element) the scan neither panics nor
\* returns Err: it goes on to the end of the events and returns Ok with the
\* records accumulated, none when no container start event was read. A
\* scan that failed has just read a malformed event.
C11_OnlyMalformedFails ==
    /\ WellFormedDoc =>
          /\ pc # "panicked"
          /\ vec_result.kind # "Err"
          /\ Returned =>
                /\ reader = Len(Xml)
                /\ vec_result.kind = "Ok"
                /\ DOMAIN vec_result = {"kind", "nodes"}
                /\ vec_result.nodes = nodes
                /\ ContainerStarts = {} => vec_result.nodes = <<>>
    /\ (pc = "panicked" \/ vec_result.kind = "Err") =>
          /\ reader > 0
          /\ Malformed(Xml[reader])

\* text outside every element, an unknown element and CDATA, no container:
\* Ok with no record
C11_Witness ==
    /\ Returned
    /\ WellFormedDoc
    /\ Len(Xml) = 3
    /\ Xml[1] = Text(S_A)
    /\ Xml[2] = Start(S_rss)
    /\ Xml[3] = CData(S_B)
    /\ ContainerStarts = {}
    /\ vec_result.kind = "Ok"
    /\ vec_result.nodes = <<>>

\* C13: a step of the scan changes at most the last record. The records
\* before the last keep their value, a record appended leaves all the
\* earlier ones (the last one included) as they were, and the sequence
\* never gets shorter or reordered.
C13_EarlierRecordsFrozen ==
    [][pc = "scan" =>
          /\ Len(nodes') >= Len(nodes)
          /\ \A i \in 1..(Len(nodes) - 1) : nodes'[i] = nodes[i]
          /\ Len(nodes') > Len(nodes) =>
                /\ Len(nodes') = Len(nodes) + 1
                /\ SubSeq(nodes', 1, Len(nodes)) = nodes
    ]_vars

\* the first record has its title, a second container start was read and the
\* first record still has it
C13_Witness ==
    /\ pc = "scan"
    /\ reader = 4
    /\ Xml[3] = Text(S_A)
    /\ Xml[4] = Start(S_item)
    /\ Len(nodes) = 2
    /\ nodes[1].title = S_A
    /\ AllFieldsEmpty(nodes[2])

\* C14, as claimed: a text or CDATA event read (a) before any record was
\* appended, whatever the active tag, or (b) while the active tag is none
\* of the six field tags up to case, leaves the records and the active tag
\* as they were and raises no error: the scan goes on.
C14_UnroutedContentChangesNothing ==
    [][(/\ pc = "scan"
        /\ read_event(Xml, reader).type \in {"Text", "CData"}
        /\ (nodes = <<>> \/ FieldOfTag(active) = 0)) =>
           /\ nodes' = nodes
           /\ active' = active
           /\ vec_result' = vec_result
           /\ pc' = "scan"
    ]_vars

\* the fields whose configured tag is the given name up to case
FieldsOfTag(tag) ==
    {f \in 1..Len(Fields) : SameIgnoringCase(parser[TagOf[f]], tag)}

\* the step that reads a text or CDATA event with a record to write to,
\* while the active tag is the tag of two or more fields
TieStep ==
    /\ Consumed
    /\ read_event(Xml, reader).type \in {"Text", "CData"}
    /\ nodes # <<>>
    /\ Cardinality(FieldsOfTag(active)) >= 2

\* C15, as claimed: when two fields are configured with the same name, the
\* content of a text or CDATA event under an element of that name goes to
\* the field that is checked later.
C15_LaterFieldWins ==
    [][TieStep =>
          nodes'[Len(nodes)][Fields[SetMax(FieldsOfTag(active))]] = Content(reader + 1)
    ]_vars

\* C15, amended: the content goes to the field that is checked first, in
\* the order title, link, author, description, guid, publish, and every
\* later field with the same name keeps the value it had.
C15_EarlierFieldWins ==
    [][TieStep =>
          LET first == SetMin(FieldsOfTag(active))
          IN  /\ nodes'[Len(nodes)][Fields[first]] = Content(reader + 1)
              /\ \A g \in FieldsOfTag(active) \ {first} :
                     nodes'[Len(nodes)][Fields[g]] = nodes[Len(nodes)][Fields[g]]
    ]_vars

\* link_tag = guid_tag = "X": the text under <x> is the link, the guid is empty
C15_Witness ==
    /\ pc = "scan"
    /\ Mapping = TieMapping(2, 5)
    /\ reader = 3
    /\ Xml[1] = Start(S_item)
    /\ Xml[2] = Start(S_x)
    /\ Xml[3] = Text(S_A)
    /\ Len(nodes) = 1
    /\ nodes[1].link = S_A
    /\ nodes[1].guid = <<>>

\* C20: an End event, and every event that is not Start, Text, CData, Eof
\* or Err, changes neither the active tag nor a record. Only a start event
\* sets the active tag, which is therefore always the name of the last start
\* event read; a text or CDATA event read right after an End event (of an
\* element or of the container) is routed by that name and written to the
\* last record.
C20_EndLeavesActiveTag ==
    [][Consumed =>
          LET e == read_event(Xml, reader)
          IN  /\ e.type \notin {"Start", "Text", "CData"} =>
                    (active' = active /\ nodes' = nodes)
              /\ e.type # "Start" => active' = active
              /\ active' = ActiveAt(reader + 2)
              /\ (/\ e.type \in {"Text", "CData"}
                  /\ reader > 0
                  /\ Xml[reader].type = "End"
                  /\ nodes # <<>>
                  /\ FieldOfTag(ActiveAt(reader + 1)) # 0) =>
                     nodes'[Len(nodes)][Fields[FieldOfTag(ActiveAt(reader + 1))]] =
                         Content(reader + 1)
    ]_vars

\* <item><Title></Title></item> and then CDATA: it is the title of the record
C20_Witness ==
    /\ pc = "scan"
    /\ reader = 5
    /\ Xml[1] = Start(S_item)
    /\ Xml[2] = Start(S_Title)
    /\ Xml[3] = End
    /\ Xml[4] = End
    /\ Xml[5].type = "CData"
    /\ active = S_Title
    /\ Len(nodes) = 1
    /\ nodes[1].title = Content(5)

\* an iteration of the loop is possible and changes the state: the Text arm
\* takes every Text event, whether its content decodes or not, and one of
\* the other arms takes every other event and the end of the events
NonTextArm == OnStart \/ OnCData \/ OnEof \/ OnErr \/ OnOther
CanIterate ==
    \/ read_event(Xml, reader).type = "Text"
    \/ ENABLED <<NonTextArm>>_vars

\* C19: the scan is one forward pass that terminates. Each iteration reads
\* exactly the next event of the document, never an earlier one; while the
\* scan runs an iteration is possible and it either moves the Reader one
\* event closer to the end of the document or ends the scan, so the scan
\* ends within Len(Xml) + 1 iterations: with success when the Reader yields
\* Eof after the last event, or with failure at the first malformed event.
C19_ForwardPassTerminates ==
    /\ [][pc = "scan" =>
             \/ reader' = reader + 1 /\ reader < Len(Xml)
             \/ reader' = reader /\ reader = Len(Xml) /\ pc' # "scan"]_vars
    /\ [](pc = "scan" =>
             /\ reader <= Len(Xml)
             /\ \A n \in 1..reader : ~Malformed(Xml[n])
             /\ CanIterate)
    /\ [](pc \notin {"idle", "scan"} =>
             \/ /\ vec_result.kind = "Ok"
                /\ reader = Len(Xml)
                /\ \A n \in 1..Len(Xml) : ~Malformed(Xml[n])
             \/ /\ pc = "panicked" \/ vec_result.kind = "Err"
                /\ reader > 0
                /\ Malformed(Xml[reader])
                /\ \A n \in 1..(reader - 1) : ~Malformed(Xml[n]))

\* the scan of a document of 23 events has ended at its end
C19_Witness ==
    /\ pc = "done"
    /\ Len(Xml) = 23
    /\ reader = 23
    /\ vec_result.kind = "Ok"

\* the position of the first malformed event of the document (0: none)
FirstMalformed ==
    LET M == {n \in 1..Len(Xml) : Malformed(Xml[n])}
    IN  IF M = {} THEN 0 ELSE SetMin(M)

\* how parse_vec ends for the document and the tags of the parser, read off
\* the document: the records of its containers, the diagnostic of the
\* Reader's error, or a panic
ExpectedResult ==
    LET j == FirstMalformed
    IN  IF j = 0
        THEN LET T == Targets
             IN  [kind  |-> "Ok",
                  nodes |-> [i \in 1..Cardinality(ContainerStarts) |->
                                ExpectedRecord(T, i)]]
        ELSE IF Xml[j].type = "Err"
        THEN [kind |-> "Err", error |-> [kind |-> "Other", msg |-> DebugFmt(Xml[j].err)]]
        ELSE [kind |-> "Panic"]

\* pat occurs in s, as it is written
Occurs(s, pat) ==
    {i \in 1..(Len(s) - Len(pat) + 1) :
        \A k \in 1..Len(pat) : s[i + k - 1] = pat[k]} # {}

\* pat occurs in s, in any mix of upper and lower case
OccursIgnoringCase(s, pat) ==
    {i \in 1..(Len(s) - Len(pat) + 1) :
        SameIgnoringCase(SubSeq(s, i, i + Len(pat) - 1), pat)} # {}

\* the text has "xml" or "XML", and "rss" or "RSS"
Accepted(text) ==
    /\ Occurs(text, <<120, 109, 108>>) \/ Occurs(text, <<88, 77, 76>>)
    /\ Occurs(text, <<114, 115, 115>>) \/ Occurs(text, <<82, 83, 83>>)

\* C12: the pre-check is advisory. set_xml gives the parser any text without
\* the check, and the text is scanned; from_str returns a parser exactly for
\* the texts the check accepts, and that parser is the one new() and
\* set_xml give for the same text, so that parse_vec returns the same for
\* both (what the document and the default tags determine); for a text the
\* check rejects from_str returns an InvalidData error, and nothing is scanned.
C12_PreCheckIsAdvisory ==
    /\ built.by = "set_xml" =>
          /\ pc # "rejected"
          /\ parser = [RssParserNew EXCEPT !.xml = built.arg]
    /\ built.by = "from_str" =>
          IF Accepted(xml_text(built.arg))
          THEN /\ built.kind = "Ok"
               /\ pc # "rejected"
               /\ parser = [RssParserNew EXCEPT !.xml = built.arg]
          ELSE /\ built.kind = "Err"
               /\ built.error.kind = "InvalidData"
               /\ pc = "rejected"
               /\ entry = "none"
               /\ reader = 0
               /\ vec_result = NoResult
               /\ json_result = NoResult
    /\ Returned => vec_result = ExpectedResult

\* <item><title>A</title>, a text the check rejects, was given with set_xml
\* and scanned: one record with its title
C12_Witness ==
    /\ built.by = "set_xml"
    /\ ~Accepted(xml_text(built.arg))
    /\ Returned
    /\ vec_result.kind = "Ok"
    /\ Len(vec_result.nodes) = 1
    /\ vec_result.nodes[1].title = S_A

\* C16, as claimed: the pre-check looks for "xml" and for "rss" in any mix
\* of upper and lower case: from_str returns a parser for every text that
\* has both, and an error for every text that lacks one of them.
C16_PreCheckIgnoresCase ==
    built.by = "from_str" =>
        (built.kind = "Ok" <=>
            /\ OccursIgnoringCase(xml_text(built.arg), <<120, 109, 108>>)
            /\ OccursIgnoringCase(xml_text(built.arg), <<114, 115, 115>>))

\* C17: nothing of a scan survives it. parse_vec leaves the document and
\* the seven tags of the parser as they are, every call starts with an
\* empty active tag, no record and a Reader at the start of the document,
\* and a call on a parser that was called before returns what the call
\* before returned, a success or an error.
C17_ScanStateDoesNotSurvive ==
    [][/\ (pc \in {"scan", "done"} \/ pc' = "scan") => parser' = parser
       /\ (pc # "scan" /\ pc' = "scan") =>
             (active' = <<>> /\ nodes' = <<>> /\ reader' = 0)
       /\ vec_result # NoResult => vec_result' = vec_result
    ]_vars

\* parse_json and then parse_vec were called on the parser: the second call
\* has returned one record with its title
C17_Witness ==
    /\ pc = "done"
    /\ entry = "parse_vec"
    /\ json_result # NoResult
    /\ vec_result.kind = "Ok"
    /\ Len(vec_result.nodes) = 1
    /\ vec_result.nodes[1].title = S_A

\* the step in which the two threads change places
SwitchStep == other' = Run /\ Run' = other

\* C18: two parsers scanned by two threads whose steps interleave in any
\* order do not interfere. A step of one thread leaves the other parser,
\* its active tag, its records and its result as they are, and each scan
\* ends as it ends alone: with what its own document and tags determine.
C18_RunsDoNotInterfere ==
    /\ [][other' = other \/ SwitchStep]_vars
    /\ [](pc = "done" => vec_result = ExpectedResult)
    /\ [](pc = "panicked" => ExpectedResult.kind = "Panic")

\* both scans have ended, one with a record and its title, the other with
\* the error of the Reader
C18_Witness ==
    /\ pc = "done"
    /\ other.pc = "done"
    /\ vec_result.kind = "Ok"
    /\ Len(vec_result.nodes) = 1
    /\ vec_result.nodes[1].title = S_A
    /\ other.vec_result.kind = "Err"
    /\ other.nodes = <<RssItemDefault>>

====
